---- MODULE Spec2Model ----
(***************************************************************************)
(* The x402 payment-gated top-up server: src/src/index.ts (the Hono        *)
(* variant) and src/unnamed/part_000 (the Express variant).                *)
(*                                                                         *)
(* Strings of the environment whose characters the program reads           *)
(* (TOP_UP_COST goes through Number()) are sequences of one-character      *)
(* strings; the others are TLA+ strings.  JavaScript numbers are exact     *)
(* decimal fractions [kind |-> "num", n, d] (value n/d, lowest terms) or   *)
(* [kind |-> "nan"].                                                       *)
(***************************************************************************)
EXTENDS Integers, Sequences, FiniteSets, TLC

VARIABLES variant, env, phase, paymentAccepts, reqs, ledger, settled

vars == <<variant, env, phase, paymentAccepts, reqs, ledger, settled>>

(* ---------------------------------------------------------------- bounds *)

\* Requests the server receives in one run of Spec (all may be in flight at once).
MaxRequests == 2

\* Requests the server receives in one run of SpecConfigs.
MaxConfigRequests == 1

(* ------------------------------------------------------- JavaScript values *)

\* process.env.X of a variable that is not set (undefined): Undefined for a
\* value kept as a TLA+ string, UndefinedChars for one kept as characters.
Undefined == "<undefined>"

UndefinedChars == <<"<undefined>">>

\* JavaScript truthiness of an environment value: undefined and "" are falsy.
Truthy(v) == v # Undefined /\ v # ""

TruthyChars(v) == v # UndefinedChars /\ v # <<>>

\* a || b on environment values.
OrElse(v, dflt) == IF Truthy(v) THEN v ELSE dflt

Digit == {"0", "1", "2", "3", "4", "5", "6", "7", "8", "9"}

DigitVal(c) ==
    CASE c = "0" -> 0 [] c = "1" -> 1 [] c = "2" -> 2 [] c = "3" -> 3
      [] c = "4" -> 4 [] c = "5" -> 5 [] c = "6" -> 6 [] c = "7" -> 7
      [] c = "8" -> 8 [] c = "9" -> 9

RECURSIVE GCD(_, _)
GCD(a, b) == IF b = 0 THEN a ELSE GCD(b, a % b)

Abs(x) == IF x < 0 THEN -x ELSE x

NaN == [kind |-> "nan", n |-> 0, d |-> 1]

\* The number n/d in lowest terms.
Num(n, d) ==
    LET g == GCD(Abs(n), d)
    IN  [kind |-> "num", n |-> n \div g, d |-> d \div g]

RECURSIVE DigitsVal(_)
DigitsVal(s) ==
    IF s = <<>> THEN 0
    ELSE 10 * DigitsVal(SubSeq(s, 1, Len(s) - 1)) + DigitVal(s[Len(s)])

RECURSIVE Pow10(_)
Pow10(k) == IF k = 0 THEN 1 ELSE 10 * Pow10(k - 1)

AllDigits(s) == \A i \in 1..Len(s) : s[i] \in Digit

\* Number(s) for s a decimal literal: optional "-", digits, optional "."
\* and digits; any other string of the model's inputs is NaN.
NumberOf(s) ==
    LET neg  == Len(s) > 0 /\ s[1] = "-"
        body == IF neg THEN Tail(s) ELSE s
        dots == {i \in 1..Len(body) : body[i] = "."}
        sign == IF neg THEN -1 ELSE 1
    IN  IF s = <<>> THEN Num(0, 1)
        ELSE IF dots = {} THEN
            IF body # <<>> /\ AllDigits(body) THEN Num(sign * DigitsVal(body), 1)
            ELSE NaN
        ELSE IF Cardinality(dots) = 1 THEN
            LET p    == CHOOSE i \in dots : TRUE
                int  == SubSeq(body, 1, p - 1)
                frac == SubSeq(body, p + 1, Len(body))
            IN  IF Len(body) > 1 /\ AllDigits(int) /\ AllDigits(frac)
                THEN Num(sign * (DigitsVal(int) * Pow10(Len(frac)) + DigitsVal(frac)),
                         Pow10(Len(frac)))
                ELSE NaN
        ELSE NaN

\* x / k for a positive integer k.
DivBy(x, k) == IF x.kind = "nan" THEN NaN ELSE Num(x.n, x.d * k)

\* x < n/d
LessThan(x, n, d) == x.kind = "num" /\ x.n * d < n * x.d

\* JSON.stringify of a number: NaN is written as null.
JsonNumber(x) ==
    IF x.kind = "nan" THEN [type |-> "null", num |-> NaN, str |-> <<>>]
    ELSE [type |-> "number", num |-> x, str |-> <<>>]

\* JSON.stringify of a string.
JsonString(s) == [type |-> "string", num |-> NaN, str |-> s]

\* response.ok
ResponseOk(status) == status \in 200..299

(* ----------------------------------------------------------- configuration *)

Variants == {"hono", "express"}

\* Values of TOP_UP_COST: unset, 1.00 USDC and 2.50 USDC in micro-units, and
\* the strings "0", "-5" and "1.5".
CostValues ==
    { UndefinedChars,
      <<"1", "0", "0", "0", "0", "0", "0">>,
      <<"2", "5", "0", "0", "0", "0", "0">>,
      <<"0">>,
      <<"-", "5">>,
      <<"1", ".", "5">> }

EvmAddress == "0xPayee"

SolanaAddress == "SoPayee"

\* Every environment the model starts the server in.
AllEnvs ==
    [ TOP_UP_COST              : CostValues,
      PHALA_CLOUD_API_KEY      : {Undefined, "key"},
      EVM_RECEIVING_ADDRESS    : {Undefined, EvmAddress},
      SOLANA_RECEIVING_ADDRESS : {Undefined, SolanaAddress},
      EVM_NETWORK              : {Undefined, "base"},
      SOLANA_NETWORK           : {Undefined, "mainnet-beta", "localnet"} ]

\* The complete environments of the README: both addresses, the key, the
\* default networks, and each cost.
ServingEnvs ==
    { e \in AllEnvs :
        /\ e.TOP_UP_COST = <<"2", "5", "0", "0", "0", "0", "0">>
        /\ e.PHALA_CLOUD_API_KEY = "key"
        /\ e.EVM_RECEIVING_ADDRESS = EvmAddress
        /\ e.SOLANA_RECEIVING_ADDRESS = SolanaAddress
        /\ e.EVM_NETWORK = Undefined
        /\ e.SOLANA_NETWORK = Undefined }

evmNetwork(e) == OrElse(e.EVM_NETWORK, "base-sepolia")

solanaNetwork(e) == OrElse(e.SOLANA_NETWORK, "devnet")

splTokenName == "USDC"

\* The Solana clusters on which the token table knows USDC.
KnownSPLTokenClusters == {"devnet", "mainnet-beta"}

NoTokenInfo == [found |-> FALSE, cluster |-> "", name |-> ""]

lookupKnownSPLToken(cluster, name) ==
    IF name = "USDC" /\ cluster \in KnownSPLTokenClusters
    THEN [found |-> TRUE, cluster |-> cluster, name |-> name]
    ELSE NoTokenInfo

NoError == "none"

StartupErrorLookupIfEnabled(e) ==
    IF ~TruthyChars(e.TOP_UP_COST) THEN "TOP_UP_COST is required"
    ELSE IF ~Truthy(e.PHALA_CLOUD_API_KEY) THEN "PHALA_CLOUD_API_KEY is required"
    ELSE IF ~Truthy(e.EVM_RECEIVING_ADDRESS) /\ ~Truthy(e.SOLANA_RECEIVING_ADDRESS)
        THEN "At least one of EVM_RECEIVING_ADDRESS or SOLANA_RECEIVING_ADDRESS is required"
    ELSE IF /\ Truthy(e.SOLANA_RECEIVING_ADDRESS)
            /\ ~lookupKnownSPLToken(solanaNetwork(e), splTokenName).found
        THEN "couldn't look up SPLToken"
    ELSE NoError

\* The module's top-level statements up to the creation of the app: the
\* first throw that ends the process, or NoError.
StartupError(e) ==
    IF ~TruthyChars(e.TOP_UP_COST) THEN "TOP_UP_COST is required"
    ELSE IF ~Truthy(e.PHALA_CLOUD_API_KEY) THEN "PHALA_CLOUD_API_KEY is required"
    ELSE IF ~Truthy(e.EVM_RECEIVING_ADDRESS) /\ ~Truthy(e.SOLANA_RECEIVING_ADDRESS)
        THEN "At least one of EVM_RECEIVING_ADDRESS or SOLANA_RECEIVING_ADDRESS is required"
    ELSE IF ~lookupKnownSPLToken(solanaNetwork(e), splTokenName).found
        THEN "couldn't look up SPLToken"
    ELSE NoError

(* ------------------------------------------------------ payment descriptors *)

Descriptor(chain, scheme, network, amount, payTo) ==
    [ chain |-> chain, scheme |-> scheme, network |-> network,
      asset |-> "USDC", amount |-> amount, payTo |-> payTo ]

solana_x402Exact(e) ==
    Descriptor("solana", "exact", solanaNetwork(e),
               e.TOP_UP_COST, e.SOLANA_RECEIVING_ADDRESS)

solana_xSolanaSettlement(e) ==
    Descriptor("solana", "x-solana-settlement", solanaNetwork(e),
               e.TOP_UP_COST, e.SOLANA_RECEIVING_ADDRESS)

evm_x402Exact(e) ==
    Descriptor("evm", "exact", evmNetwork(e),
               e.TOP_UP_COST, e.EVM_RECEIVING_ADDRESS)

\* One element of the accepts array: a descriptor, or an array of descriptors.
One(d) == [kind |-> "one", ds |-> <<d>>]

Group(ds) == [kind |-> "group", ds |-> ds]

SolanaAccepts(v, e) ==
    IF ~Truthy(e.SOLANA_RECEIVING_ADDRESS) THEN <<>>
    ELSE IF v = "hono"
        THEN <<One(solana_x402Exact(e)), One(solana_xSolanaSettlement(e))>>
        ELSE <<Group(<<solana_xSolanaSettlement(e), solana_x402Exact(e)>>)>>

EvmAcceptsBug(v, e) ==
    IF Truthy(e.SOLANA_RECEIVING_ADDRESS) THEN <<One(evm_x402Exact(e))>> ELSE <<>>

EvmAccepts(v, e) ==
    IF Truthy(e.EVM_RECEIVING_ADDRESS) THEN <<One(evm_x402Exact(e))>> ELSE <<>>

buildPaymentAccepts(v, e) == SolanaAccepts(v, e) \o EvmAccepts(v, e)

MiddlewareAcceptsFirstOnly(v, e) == SubSeq(buildPaymentAccepts(v, e), 1, 1)

\* createMiddleware({ facilitatorURL, accepts: paymentAccepts })
MiddlewareAccepts(v, e) == buildPaymentAccepts(v, e)

\* The descriptors of an accepts array, in order.
RECURSIVE Flatten(_)
Flatten(accepts) ==
    IF accepts = <<>> THEN <<>> ELSE Head(accepts).ds \o Flatten(Tail(accepts))

(* ------------------------------------------------------------------ inputs *)

Workspaces == {"acme", "beta"}

Methods == {"GET", "POST"}

Paths == {"balance", "topup"}

\* The payment proof of a request: absent, malformed, or a well-formed proof
\* of a payment of `paid` micro-units on one chain.
NoProof == [kind |-> "none", id |-> "", chain |-> "", paid |-> 0]

MalformedProof == [kind |-> "malformed", id |-> "", chain |-> "", paid |-> 0]

WellFormedProofs ==
    { [kind |-> "proof", id |-> "p1", chain |-> "solana", paid |-> 2500000],
      [kind |-> "proof", id |-> "p2", chain |-> "evm", paid |-> 3000000] }

Proofs == {NoProof, MalformedProof} \cup WellFormedProofs

\* What the ledger can answer.  A reply is an HTTP response (status and
\* body) or a transport failure of fetch.
BalanceValues == {Num(1, 1), Num(21, 4)}

\* A JSON object {balance?: number}; without the field, .balance is undefined
\* (NaN stands for it).
JsonObject(has, b) == [json |-> "object", has |-> has, balance |-> b, text |-> ""]

InvalidJson == [json |-> "invalid", has |-> FALSE, balance |-> Num(0, 1), text |-> "<html>"]

TextBody(t) == [json |-> "invalid", has |-> FALSE, balance |-> Num(0, 1), text |-> t]

HttpReply(status, body) == [net |-> "ok", status |-> status, body |-> body]

FetchFailed == [net |-> "error", status |-> 0, body |-> TextBody("")]

NoReply == [net |-> "none", status |-> 0, body |-> TextBody("")]

SuccessReplies ==
    { HttpReply(200, JsonObject(TRUE, b)) : b \in BalanceValues }
        \cup { HttpReply(200, JsonObject(FALSE, NaN)), HttpReply(200, InvalidJson) }

ErrorReplies ==
    { HttpReply(500, TextBody("Internal Server Error")),
      HttpReply(404, TextBody("workspace not found")) }

(* ------------------------------------------------------------------ routes *)

TopupChainUngated == <<"topupHandler">>

\* app.get("/topup/:workspace", middleware, handler)
TopupChain == <<"paymentGate", "topupHandler">>

BalanceChainGated == <<"paymentGate", "balanceHandler">>

\* app.get("/balance/:workspace", handler)
BalanceChain == <<"balanceHandler">>

TopupMethod == "GET"

\* The handlers registered for a request, in order; none when no route matches.
MatchRoute(method, path) ==
    IF method = "GET" /\ path = "balance" THEN BalanceChain
    ELSE IF method = TopupMethod /\ path = "topup" THEN TopupChain
    ELSE <<>>

(* --------------------------------------------------------------- responses *)

NoResponse == [kind |-> "none"]

NotFound == [kind |-> "not-found", status |-> 404]

\* The gate's answer to a request without a valid payment.
PaymentRequired(accepts) ==
    [kind |-> "payment-required", status |-> 402, accepts |-> accepts]

\* The gate's answer when the facilitator cannot be reached.
GatewayError == [kind |-> "gateway-error"]

\* c.json(body) / res.json(body)
JsonResponse(status, body) == [kind |-> "json", status |-> status, body |-> body]

StatusMessageNoStatus(prefix, status) == <<prefix, "error">>

\* error instanceof Error ? error.message : String(error)
StatusMessage(prefix, status) == <<prefix, ToString(status)>>

FetchFailedMessage == <<"fetch failed">>

JsonSyntaxErrorMessage == <<"Unexpected token in JSON">>

ErrorBody(what, details) == [error |-> what, details |-> details]

(* ---------------------------------------------------------------- requests *)

NoBody == [amount |-> [type |-> "none", num |-> NaN, str |-> <<>>]]

NewRequest(method, path, ws, proof) ==
    [ method |-> method, path |-> path, ws |-> ws, proof |-> proof,
      pc |-> "routing", rest |-> <<>>, handler |-> "none", verdict |-> "none", matched |-> "none",
      handlerRuns |-> 0, reads |-> 0, writes |-> 0, sent |-> NoBody,
      up |-> NoReply, errorText |-> "", resp |-> NoResponse,
      credited |-> FALSE ]

ScaleFactor == 1000000

\* const adjustedAmount = Number(TOP_UP_COST) / 1_000_000 (index.ts);
\* body: JSON.stringify({ amount: TOP_UP_COST }) (part_000).
TopupBody(v, e) ==
    IF v = "hono"
    THEN [amount |-> JsonNumber(DivBy(NumberOf(e.TOP_UP_COST), ScaleFactor))]
    ELSE [amount |-> JsonString(e.TOP_UP_COST)]

StartHandlerTwice(r, h, v, e) ==
    IF h = "balanceHandler"
    THEN [r EXCEPT !.pc = "await", !.rest = <<>>, !.handler = h,
                   !.handlerRuns = @ + 1, !.reads = @ + 1]
    ELSE [r EXCEPT !.pc = "await", !.rest = <<>>, !.handler = h,
                   !.handlerRuns = @ + 2, !.writes = @ + 2,
                   !.sent = TopupBody(v, e)]

\* A handler runs up to its first await: the fetch to the ledger is issued.
StartHandler(r, h, v, e) ==
    IF h = "balanceHandler"
    THEN [r EXCEPT !.pc = "await", !.rest = <<>>, !.handler = h,
                   !.handlerRuns = @ + 1, !.reads = @ + 1]
    ELSE [r EXCEPT !.pc = "await", !.rest = <<>>, !.handler = h,
                   !.handlerRuns = @ + 1, !.writes = @ + 1,
                   !.sent = TopupBody(v, e)]

\* The router hands the request to the first handler of its chain.
Dispatch(r, chain, v, e) ==
    IF chain = <<>> THEN [r EXCEPT !.pc = "done", !.resp = NotFound]
    ELSE IF Head(chain) = "paymentGate"
        THEN [r EXCEPT !.pc = "gate", !.rest = Tail(chain)]
        ELSE StartHandler(r, Head(chain), v, e)

BalanceNoDefault(body) == body.balance

\* data.balance ?? 0
BalanceOrZero(body) == IF body.has THEN body.balance ELSE Num(0, 1)

\* response.text() of a non-success reply, as the handler logs it.
ErrorTextOf(rep) ==
    IF rep.net = "ok" /\ ~ResponseOk(rep.status) THEN rep.body.text ELSE ""

\* What the try block throws on a reply, as the catch block reports it:
\* <<>> when nothing is thrown.
Thrown(prefix, rep) ==
    IF rep.net = "error" THEN FetchFailedMessage
    ELSE IF ~ResponseOk(rep.status) THEN StatusMessage(prefix, rep.status)
    ELSE IF rep.body.json = "invalid" THEN JsonSyntaxErrorMessage
    ELSE <<>>

BalanceBodyShared(r, rep, v) ==
    IF v = "hono"
    THEN [balance |-> BalanceOrZero(rep.body), workspace |-> reqs[Len(reqs)].ws]
    ELSE [balance |-> BalanceOrZero(rep.body), workspace |-> reqs[Len(reqs)].ws,
          needsTopup |-> LessThan(BalanceOrZero(rep.body), 11, 10)]

\* The balance handler's success body.
BalanceBody(r, rep, v) ==
    IF v = "hono"
    THEN [balance |-> BalanceOrZero(rep.body), workspace |-> r.ws]
    ELSE [balance |-> BalanceOrZero(rep.body), workspace |-> r.ws,
          needsTopup |-> LessThan(BalanceOrZero(rep.body), 11, 10)]

BalanceErrorResponse(details) ==
    JsonResponse(500, ErrorBody("Balance check failed", details))

\* The balance handler from the ledger's reply to its response.
BalanceDone(r, rep, v) ==
    [r EXCEPT !.pc = "done", !.up = rep, !.errorText = ErrorTextOf(rep),
        !.resp = IF Thrown("Phala API: ", rep) # <<>>
                 THEN BalanceErrorResponse(Thrown("Phala API: ", rep))
                 ELSE JsonResponse(200, BalanceBody(r, rep, v))]

\* The decimal digits of a natural number.
RECURSIVE ToChars(_)
ToChars(n) ==
    IF n < 10 THEN <<ToString(n)>> ELSE Append(ToChars(n \div 10), ToString(n % 10))

TopupBodyOfPaid(r, rep, e) ==
    [ success |-> TRUE, newBalance |-> BalanceOrZero(rep.body),
      workspace |-> r.ws, paidAmount |-> ToChars(r.proof.paid),
      topupAmount |-> ToChars(r.proof.paid) ]

\* The top-up handler's success body.
TopupSuccessBody(r, rep, e) ==
    [ success |-> TRUE, newBalance |-> BalanceOrZero(rep.body),
      workspace |-> r.ws, paidAmount |-> e.TOP_UP_COST,
      topupAmount |-> e.TOP_UP_COST ]

TopupErrorResponseNoStatus(details) ==
    JsonResponse(200, ErrorBody("Topup failed", details))

TopupErrorResponse(details) ==
    JsonResponse(500, ErrorBody("Topup failed", details))

TopupDoneReconcile(r, rep, e) ==
    [r EXCEPT !.pc = "done", !.up = rep, !.errorText = ErrorTextOf(rep),
        !.reads = IF Thrown("Phala topup: ", rep) # <<>> THEN @ + 1 ELSE @,
        !.resp = IF Thrown("Phala topup: ", rep) # <<>>
                 THEN TopupErrorResponse(Thrown("Phala topup: ", rep))
                 ELSE JsonResponse(200, TopupSuccessBody(r, rep, e))]

TopupDoneRetry(r, rep, e) ==
    [r EXCEPT !.pc = "done", !.up = rep, !.errorText = ErrorTextOf(rep),
        !.writes = IF Thrown("Phala topup: ", rep) # <<>> THEN @ + 1 ELSE @,
        !.resp = IF Thrown("Phala topup: ", rep) # <<>>
                 THEN TopupErrorResponse(Thrown("Phala topup: ", rep))
                 ELSE JsonResponse(200, TopupSuccessBody(r, rep, e))]

\* The top-up handler from the ledger's reply to its response.
TopupDone(r, rep, e) ==
    [r EXCEPT !.pc = "done", !.up = rep, !.errorText = ErrorTextOf(rep),
        !.resp = IF Thrown("Phala topup: ", rep) # <<>>
                 THEN TopupErrorResponse(Thrown("Phala topup: ", rep))
                 ELSE JsonResponse(200, TopupSuccessBody(r, rep, e))]

TryBlockWithoutJson == {"fetch", "status"}

\* The statements of a handler's try block that can throw: the fetch, the
\* throw on a non-success status, and response.json().
TryBlock == {"fetch", "status", "json"}

\* The statement that throws on a reply, "none" when none does.
ThrowSite(rep) ==
    IF rep.net = "error" THEN "fetch"
    ELSE IF ~ResponseOk(rep.status) THEN "status"
    ELSE IF rep.body.json = "invalid" THEN "json"
    ELSE "none"

\* An exception leaves the handler when it is thrown outside the try block.
Escapes(rep) == ThrowSite(rep) \notin (TryBlock \cup {"none"})

\* An exception that left a handler: Hono answers it with its own plain 500,
\* under Express the rejected promise of the async handler ends the process.
UncaughtResponse(v) ==
    IF v = "hono" THEN [kind |-> "text", status |-> 500] ELSE NoResponse

UncaughtPhase(v, ph) == IF v = "hono" THEN ph ELSE "crashed"

\* A handler's continuation `done`, or the exception leaving it.
Settle(r, rep, done, v) ==
    IF Escapes(rep)
    THEN [r EXCEPT !.pc = "done", !.up = rep, !.resp = UncaughtResponse(v)]
    ELSE done

(* ----------------------------------------------------------------- the gate *)

\* The facilitator's test of a proof against one descriptor: same chain,
\* amount paid at least the amount required.
Matches(pf, d) ==
    /\ d.chain = pf.chain
    /\ LET x == NumberOf(d.amount)
       IN  x.kind = "num" /\ pf.paid * x.d >= x.n

\* The facilitator can accept a proof it has not settled before.
CanVerify(pf, accepts, done) ==
    /\ pf.kind = "proof"
    /\ pf.id \notin done
    /\ \E k \in 1..Len(Flatten(accepts)) : Matches(pf, Flatten(accepts)[k])

(* ------------------------------------------------------------------- state *)

InitWith(envs) ==
    /\ variant \in Variants
    /\ env \in envs
    /\ phase = IF StartupError(env) = NoError THEN "serving" ELSE "failed"
    /\ paymentAccepts =
         IF StartupError(env) = NoError THEN MiddlewareAccepts(variant, env) ELSE <<>>
    /\ reqs = <<>>
    /\ ledger = [w \in Workspaces |-> <<>>]
    /\ settled = {}

Init == InitWith(ServingEnvs)

InitConfigs == InitWith(AllEnvs)

Requests == 1..Len(reqs)

\* A request arrives at the listening server and is routed.
Arrive(max, method, path, ws, proof) ==
    /\ phase = "serving"
    /\ Len(reqs) < max
    /\ path = "topup" \/ proof = NoProof
    /\ reqs' = Append(reqs, Dispatch(NewRequest(method, path, ws, proof),
                                     MatchRoute(method, path), variant, env))
    /\ UNCHANGED <<variant, env, phase, paymentAccepts, ledger, settled>>

\* The gate finds no proof, or a malformed one.
GateNoProof(i) ==
    /\ reqs[i].pc = "gate"
    /\ reqs[i].proof.kind \in {"none", "malformed"}
    /\ reqs' = [reqs EXCEPT ![i].pc = "done", ![i].rest = <<>>,
                            ![i].resp = PaymentRequired(paymentAccepts)]
    /\ UNCHANGED <<variant, env, phase, paymentAccepts, ledger, settled>>

\* The facilitator rejects the proof.
GateRejected(i) ==
    /\ reqs[i].pc = "gate"
    /\ reqs[i].proof.kind = "proof"
    /\ reqs' = [reqs EXCEPT ![i].pc = "done", ![i].rest = <<>>,
                            ![i].verdict = "rejected",
                            ![i].resp = PaymentRequired(paymentAccepts)]
    /\ UNCHANGED <<variant, env, phase, paymentAccepts, ledger, settled>>

\* The facilitator cannot be reached.
GateUnavailable(i) ==
    /\ reqs[i].pc = "gate"
    /\ reqs[i].proof.kind = "proof"
    /\ reqs' = [reqs EXCEPT ![i].pc = "done", ![i].rest = <<>>,
                            ![i].verdict = "unavailable",
                            ![i].resp = GatewayError]
    /\ UNCHANGED <<variant, env, phase, paymentAccepts, ledger, settled>>

\* The facilitator accepts the proof; the gate calls the next handler.
GateVerified(i) ==
    /\ reqs[i].pc = "gate"
    /\ CanVerify(reqs[i].proof, paymentAccepts, settled)
    /\ settled' = settled \cup {reqs[i].proof.id}
    /\ reqs' = [reqs EXCEPT ![i] =
            StartHandler([reqs[i] EXCEPT !.verdict = "verified",
                                         !.matched = reqs[i].proof.chain],
                         Head(reqs[i].rest), variant, env)]
    /\ UNCHANGED <<variant, env, phase, paymentAccepts, ledger>>

\* The ledger answers a balance read, or the fetch fails.
LedgerRead(i, rep) ==
    /\ reqs[i].pc = "await"
    /\ reqs[i].handler = "balanceHandler"
    /\ reqs' = [reqs EXCEPT ![i] =
            Settle(reqs[i], rep, BalanceDone(reqs[i], rep, variant), variant)]
    /\ phase' = IF Escapes(rep) THEN UncaughtPhase(variant, phase) ELSE phase
    /\ UNCHANGED <<variant, env, paymentAccepts, ledger, settled>>

\* The ledger answers a credit write, or the fetch fails; `applied` says
\* whether the ledger applied the credit (kept in `credited`, which no
\* handler reads).
LedgerWrite(i, rep, applied) ==
    /\ reqs[i].pc = "await"
    /\ reqs[i].handler = "topupHandler"
    /\ rep.net = "ok" => (applied <=> ResponseOk(rep.status))
    /\ ledger' = IF applied
                 THEN [ledger EXCEPT ![reqs[i].ws] = Append(@, reqs[i].sent.amount)]
                 ELSE ledger
    /\ reqs' = [reqs EXCEPT ![i] =
            [Settle(reqs[i], rep, TopupDone(reqs[i], rep, env), variant)
                EXCEPT !.credited = applied]]
    /\ phase' = IF Escapes(rep) THEN UncaughtPhase(variant, phase) ELSE phase
    /\ UNCHANGED <<variant, env, paymentAccepts, settled>>

Replies == SuccessReplies \cup ErrorReplies \cup {FetchFailed}

NextN(max) ==
    \/ \E m \in Methods, p \in Paths, w \in Workspaces, pf \in Proofs :
          Arrive(max, m, p, w, pf)
    \/ \E i \in Requests : GateNoProof(i)
    \/ \E i \in Requests : GateRejected(i)
    \/ \E i \in Requests : GateUnavailable(i)
    \/ \E i \in Requests : GateVerified(i)
    \/ \E i \in Requests, rep \in Replies : LedgerRead(i, rep)
    \/ \E i \in Requests, rep \in Replies, applied \in BOOLEAN :
          LedgerWrite(i, rep, applied)

Next == NextN(MaxRequests)

Spec == Init /\ [][Next]_vars

NextConfigs == NextN(MaxConfigRequests)

SpecConfigs == InitConfigs /\ [][NextConfigs]_vars

(* ------------------------------------------------------------------ claims *)

Gated(r) == r.method = "GET" /\ r.path = "topup"

Carries(details, text) == \E k \in 1..Len(details) : details[k] = text

\* C1: a ledger write for a top-up request is issued, and its handler runs,
\* only when the gate has verified the proof of that same request (the
\* facilitator has settled it); a request whose proof is absent or malformed,
\* that the facilitator rejected, or for which it was unreachable, has issued
\* no ledger write and has not run the handler.
C1_PaymentFirst ==
    \A i \in Requests :
        LET r == reqs[i]
        IN  r.path = "topup" =>
              /\ (r.writes > 0 \/ r.handlerRuns > 0) =>
                    /\ r.verdict = "verified"
                    /\ r.proof.kind = "proof"
                    /\ r.proof.id \in settled
              /\ ( \/ r.proof.kind \in {"none", "malformed"}
                   \/ r.verdict \in {"rejected", "unavailable"} ) =>
                    /\ r.writes = 0
                    /\ r.handlerRuns = 0
                    /\ r.pc = "done" => r.resp.kind \in {"payment-required", "gateway-error", "not-found"}

\* A verified request has written to the ledger while another request was
\* turned away by the gate without a write.
C1_Witness ==
    \E i, j \in Requests :
        /\ reqs[i].verdict = "verified" /\ reqs[i].writes = 1
        /\ reqs[j].verdict \in {"rejected", "unavailable"} /\ reqs[j].pc = "done"

\* C2: a request to the protected top-up route without a payment proof never
\* reaches the ledger client and is answered payment-required with every
\* descriptor of the acceptance set built at startup; a request with a
\* malformed proof gets the same descriptor list.
C2_NoProofPaymentRequired ==
    /\ \A i \in Requests :
          LET r == reqs[i]
          IN  (Gated(r) /\ r.proof.kind \in {"none", "malformed"}) =>
                /\ r.reads = 0 /\ r.writes = 0 /\ r.handlerRuns = 0
                /\ r.pc = "done" =>
                      /\ r.resp.kind = "payment-required"
                      /\ r.resp.accepts = buildPaymentAccepts(variant, env)
    /\ \A i, j \in Requests :
          ( /\ Gated(reqs[i]) /\ reqs[i].proof.kind = "none" /\ reqs[i].pc = "done"
            /\ Gated(reqs[j]) /\ reqs[j].proof.kind = "malformed" /\ reqs[j].pc = "done" )
          => reqs[i].resp.accepts = reqs[j].resp.accepts

\* One request without a proof and one with a malformed proof have both been answered.
C2_Witness ==
    \E i, j \in Requests :
        /\ Gated(reqs[i]) /\ reqs[i].proof.kind = "none" /\ reqs[i].pc = "done"
        /\ Gated(reqs[j]) /\ reqs[j].proof.kind = "malformed" /\ reqs[j].pc = "done"
        /\ Len(Flatten(reqs[i].resp.accepts)) = 3

\* C3: for every top-up request whose proof is verified the handler runs
\* exactly once and issues exactly one credit write, whatever the ledger
\* answers; no request ever issues a second write.
C3_ExactlyOnce ==
    \A i \in Requests :
        LET r == reqs[i]
        IN  /\ r.writes <= 1 /\ r.handlerRuns <= 1
            /\ r.verdict = "verified" => (r.handlerRuns = 1 /\ r.writes = 1 /\ r.reads = 0)

\* A verified request has been answered after the ledger write failed.
C3_Witness ==
    \E i \in Requests :
        /\ reqs[i].verdict = "verified" /\ reqs[i].pc = "done"
        /\ reqs[i].up.net = "error" /\ reqs[i].writes = 1

\* The ledger writes issued for one proof, over all requests.
RECURSIVE WritesFor(_, _)
WritesFor(id, n) ==
    IF n = 0 THEN 0
    ELSE WritesFor(id, n - 1)
           + (IF reqs[n].proof.kind = "proof" /\ reqs[n].proof.id = id THEN reqs[n].writes ELSE 0)

\* C4: with a facilitator that accepts each proof at most once, the requests
\* that present the same proof issue at most one ledger write between them,
\* and the ledger holds at most one credit for them.
C4_NoDoubleCredit ==
    /\ \A pf \in WellFormedProofs : WritesFor(pf.id, Len(reqs)) <= 1
    /\ \A i, j \in Requests :
          ( /\ i # j
            /\ reqs[i].proof.kind = "proof"
            /\ reqs[i].proof = reqs[j].proof )
          => ~(reqs[i].writes > 0 /\ reqs[j].writes > 0)

\* Two requests presented the same proof; one reached the ledger write and
\* the other was rejected.
C4_Witness ==
    \E i, j \in Requests :
        /\ i # j
        /\ reqs[i].proof.kind = "proof" /\ reqs[i].proof = reqs[j].proof
        /\ reqs[i].writes = 1 /\ reqs[i].pc = "done"
        /\ reqs[j].verdict = "rejected" /\ reqs[j].pc = "done"

\* C5: the amount of every credit write is the JSON number TOP_UP_COST / 1000000.
C5_AmountScaled ==
    \A i \in Requests :
        reqs[i].writes > 0 =>
            LET a == reqs[i].sent.amount
                c == NumberOf(env.TOP_UP_COST)
            IN  /\ a.type = "number"
                /\ a.num.n * ScaleFactor * c.d = c.n * a.num.d

\* C6: when the ledger write of a verified request returns a non-success
\* status, the response is 500 {error: "Topup failed", details}, the request
\* has issued exactly one write and no other ledger call, and the payment
\* stays settled.
C6_LedgerErrorIs500 ==
    \A i \in Requests :
        LET r == reqs[i]
        IN  ( /\ r.handler = "topupHandler" /\ r.pc = "done"
              /\ r.up.net = "ok" /\ ~ResponseOk(r.up.status) ) =>
                /\ r.resp.kind = "json"
                /\ r.resp.status = 500
                /\ r.resp.body.error = "Topup failed"
                /\ Len(r.resp.body.details) > 0
                /\ r.writes = 1 /\ r.reads = 0 /\ r.handlerRuns = 1
                /\ r.proof.id \in settled

\* A verified top-up whose ledger write returned HTTP 500 has been answered.
C6_Witness ==
    \E i \in Requests :
        /\ reqs[i].verdict = "verified" /\ reqs[i].pc = "done"
        /\ reqs[i].up.net = "ok" /\ reqs[i].up.status = 500

Succeeded(r) ==
    r.handler = "topupHandler" /\ r.pc = "done" /\ r.resp.kind = "json" /\ r.resp.status = 200

\* C7: every successful top-up response reports topupAmount = TOP_UP_COST,
\* and two successful top-ups report the same topupAmount and sent the same
\* credit whatever each caller paid.
C7_TopupAmountIsCost ==
    /\ \A i \in Requests :
          Succeeded(reqs[i]) => reqs[i].resp.body.topupAmount = env.TOP_UP_COST
    /\ \A i, j \in Requests :
          (Succeeded(reqs[i]) /\ Succeeded(reqs[j])) =>
              /\ reqs[i].resp.body.topupAmount = reqs[j].resp.body.topupAmount
              /\ reqs[i].sent = reqs[j].sent

\* Two top-ups succeeded, one paid exactly the cost and one paid more.
C7_Witness ==
    \E i, j \in Requests :
        /\ Succeeded(reqs[i]) /\ Succeeded(reqs[j])
        /\ NumberOf(env.TOP_UP_COST) = Num(reqs[i].proof.paid, 1)
        /\ reqs[j].proof.paid > reqs[i].proof.paid

BalanceSucceeded(r) ==
    r.handler = "balanceHandler" /\ r.pc = "done" /\ r.resp.kind = "json" /\ r.resp.status = 200

\* C8: every successful balance response has a balance field, which is 0
\* when the ledger's response omits balance and the ledger's value otherwise,
\* and carries the requested workspace.
C8_BalanceDefaultsToZero ==
    \A i \in Requests :
        LET r == reqs[i]
        IN  BalanceSucceeded(r) =>
              /\ "balance" \in DOMAIN r.resp.body
              /\ r.resp.body.balance.kind = "num"
              /\ ~r.up.body.has => r.resp.body.balance = Num(0, 1)
              /\ r.up.body.has => r.resp.body.balance = r.up.body.balance
              /\ r.resp.body.workspace = r.ws

\* A balance check succeeded on a ledger response without a balance field.
C8_Witness ==
    \E i \in Requests :
        /\ BalanceSucceeded(reqs[i])
        /\ ~reqs[i].up.body.has
        /\ reqs[i].resp.body.balance = Num(0, 1)

\* The settlement mechanisms offered on a chain.
Mechanisms(chain) ==
    IF chain = "solana" THEN {"exact", "x-solana-settlement"} ELSE {"exact"}

Enabled(chain) ==
    IF chain = "solana" THEN Truthy(env.SOLANA_RECEIVING_ADDRESS)
    ELSE Truthy(env.EVM_RECEIVING_ADDRESS)

\* The positions of a chain's descriptors in the flattened acceptance set.
Positions(chain) ==
    {k \in 1..Len(Flatten(paymentAccepts)) : Flatten(paymentAccepts)[k].chain = chain}

\* C9: a server with no receiving address is not serving; in a serving
\* server the acceptance set is non-empty, holds for every enabled network
\* exactly its descriptor set (each of its settlement mechanisms once, for
\* the configured cost), and holds nothing for a disabled network.
C9_OneDescriptorSetPerNetwork ==
    /\ (~Enabled("solana") /\ ~Enabled("evm")) => phase # "serving"
    /\ phase = "serving" =>
          /\ paymentAccepts # <<>>
          /\ \A chain \in {"solana", "evm"} :
                IF Enabled(chain)
                THEN /\ Cardinality(Positions(chain)) = Cardinality(Mechanisms(chain))
                     /\ {Flatten(paymentAccepts)[k].scheme : k \in Positions(chain)}
                            = Mechanisms(chain)
                     /\ \A k \in Positions(chain) :
                            Flatten(paymentAccepts)[k].amount = env.TOP_UP_COST
                ELSE Positions(chain) = {}

\* A server with only the EVM address serves with the one EVM descriptor.
C9_Witness ==
    /\ phase = "serving"
    /\ ~Enabled("solana")
    /\ Len(Flatten(paymentAccepts)) = 1
    /\ reqs # <<>>

UpstreamFailed(r) == r.pc = "done" /\ r.up.net = "ok" /\ ~ResponseOk(r.up.status)

\* C10 as stated: a non-success HTTP response from the ledger reaches the
\* caller as a failure carrying the upstream status and the upstream body.
C10_CarriesStatusAndBody ==
    \A i \in Requests :
        UpstreamFailed(reqs[i]) =>
            /\ reqs[i].resp.status >= 400
            /\ Carries(reqs[i].resp.body.details, ToString(reqs[i].up.status))
            /\ Carries(reqs[i].resp.body.details, reqs[i].up.body.text)

\* C10 amended: a non-success HTTP response from the ledger reaches the
\* caller as a 500 failure whose details carry the upstream status; the
\* upstream body is read for the log and is not part of the response.
C10_CarriesStatusOnly ==
    \A i \in Requests :
        LET r == reqs[i]
        IN  UpstreamFailed(r) =>
              /\ r.resp.kind = "json" /\ r.resp.status = 500
              /\ DOMAIN r.resp.body = {"error", "details"}
              /\ Carries(r.resp.body.details, ToString(r.up.status))
              /\ ~Carries(r.resp.body.details, r.up.body.text)
              /\ r.errorText = r.up.body.text

\* A balance read and a credit write have both failed upstream, with
\* different statuses.
C10_Witness ==
    \E i, j \in Requests :
        /\ UpstreamFailed(reqs[i]) /\ reqs[i].handler = "balanceHandler"
        /\ UpstreamFailed(reqs[j]) /\ reqs[j].handler = "topupHandler"
        /\ reqs[i].up.status # reqs[j].up.status

\* The request ended on an error of its ledger call.
LedgerCallFailed(r) ==
    r.pc = "done" /\ r.handler # "none" /\ ThrowSite(r.up) # "none"

\* C11: every request that fails on its ledger call (non-success status,
\* transport failure, unparsable body), on either route, is answered with a
\* JSON body {error, details} and a non-success status, and the server goes
\* on serving whatever requests have failed.
C11_ErrorsCaught ==
    /\ \A i \in Requests :
          LET r == reqs[i]
          IN  LedgerCallFailed(r) =>
                /\ r.resp.kind = "json"
                /\ ~ResponseOk(r.resp.status)
                /\ DOMAIN r.resp.body = {"error", "details"}
                /\ Len(r.resp.body.details) > 0
    /\ reqs # <<>> => phase = "serving"

\* A request failed on an unparsable ledger body and the next request, which
\* arrived later, was answered normally.
C11_Witness ==
    /\ Len(reqs) = 2
    /\ LedgerCallFailed(reqs[1]) /\ ThrowSite(reqs[1].up) = "json"
    /\ reqs[2].pc = "done" /\ reqs[2].handler # "none"
    /\ reqs[2].resp.kind = "json" /\ reqs[2].resp.status = 200

BalanceCheck(r) == r.method = "GET" /\ r.path = "balance"

\* C12: a balance check never passes through the gate: it is served without
\* a payment proof, the facilitator gives no verdict on it and settles
\* nothing for it, it issues one ledger read and no credit write, and the
\* ledger holds exactly the credits of the top-ups it applied, so balance
\* checks leave it unchanged.
C12_BalanceBypassesGate ==
    /\ \A i \in Requests :
          LET r == reqs[i]
          IN  BalanceCheck(r) =>
                /\ r.pc # "gate"
                /\ r.verdict = "none" /\ r.matched = "none"
                /\ r.handlerRuns = 1 /\ r.reads = 1 /\ r.writes = 0
                /\ ~r.credited
                /\ r.pc = "done" => r.resp.kind = "json"
    /\ \A w \in Workspaces :
          Len(ledger[w]) =
              Cardinality({i \in Requests : ~BalanceCheck(reqs[i]) /\ reqs[i].ws = w
                                             /\ reqs[i].credited})
    /\ settled = {reqs[i].proof.id : i \in {j \in Requests : reqs[j].verdict = "verified"}}

\* Two balance checks without a proof were answered 200; the ledger and the
\* facilitator are as at startup.
C12_Witness ==
    /\ Len(reqs) = 2
    /\ \A i \in Requests :
          /\ BalanceCheck(reqs[i]) /\ reqs[i].proof = NoProof
          /\ reqs[i].pc = "done" /\ reqs[i].resp.status = 200
    /\ \A w \in Workspaces : ledger[w] = <<>>
    /\ settled = {}

\* C13: the top-up operation is POST /topup/{workspace}: a POST request to
\* that path is taken by the gate (never answered as an unknown route), and
\* once answered with a verified payment it has run the handler and got
\* {success, newBalance, workspace, paidAmount, topupAmount} or an error body.
C13_TopupIsPost ==
    \A i \in Requests :
        LET r == reqs[i]
        IN  (r.method = "POST" /\ r.path = "topup") =>
              /\ r.resp.kind # "not-found"
              /\ r.pc \in {"gate", "await", "done"}
              /\ (r.pc = "done" /\ r.verdict = "verified") => r.handlerRuns = 1

\* C14: every descriptor of a serving server has an amount that is a
\* positive integer.
C14_AmountPositive ==
    phase = "serving" =>
        \A k \in 1..Len(Flatten(paymentAccepts)) :
            LET x == NumberOf(Flatten(paymentAccepts)[k].amount)
            IN  x.kind = "num" /\ x.d = 1 /\ x.n > 0

\* What a request brought and what it was told: its own input, the
\* facilitator's verdict and the ledger's reply.
Own(r) ==
    [ method |-> r.method, path |-> r.path, ws |-> r.ws, proof |-> r.proof,
      verdict |-> r.verdict, up |-> r.up ]

\* C15: the acceptance set of a serving server is the one built at startup
\* in every reachable state, and under every interleaving a request's
\* response and ledger call are determined by its own input and the replies
\* it received: the handler's response is its function of the request and the
\* reply, the credit sent is fixed by the configuration, and two requests
\* with the same input and replies end with the same response and credit.
C15_NoSharedState ==
    /\ phase = "serving" => paymentAccepts = buildPaymentAccepts(variant, env)
    /\ \A i \in Requests :
          LET r == reqs[i]
          IN  /\ r.writes > 0 => r.sent = TopupBody(variant, env)
              /\ (r.pc = "done" /\ r.handler = "balanceHandler") =>
                    /\ r.resp = BalanceDone(r, r.up, variant).resp
                    /\ r.resp.status = 200 => r.resp.body.workspace = r.ws
              /\ (r.pc = "done" /\ r.handler = "topupHandler") =>
                    /\ r.resp = TopupDone(r, r.up, env).resp
                    /\ r.resp.status = 200 => r.resp.body.workspace = r.ws
              /\ (r.pc = "done" /\ r.handler = "none" /\ Gated(r)) =>
                    r.resp = IF r.verdict = "unavailable" THEN GatewayError
                             ELSE PaymentRequired(buildPaymentAccepts(variant, env))
    /\ \A i, j \in Requests :
          (reqs[i].pc = "done" /\ reqs[j].pc = "done" /\ Own(reqs[i]) = Own(reqs[j])) =>
              /\ reqs[i].resp = reqs[j].resp
              /\ reqs[i].sent = reqs[j].sent

\* Two concurrent requests for different workspaces, a balance check and a
\* top-up, were both in flight and were answered in the opposite order of
\* their arrival, each with its own workspace.
C15_Witness ==
    /\ Len(reqs) = 2
    /\ reqs[1].ws # reqs[2].ws
    /\ reqs[1].handler = "topupHandler" /\ reqs[1].pc = "await"
    /\ reqs[2].handler = "balanceHandler" /\ reqs[2].pc = "done"
    /\ reqs[2].resp.status = 200 /\ reqs[2].resp.body.workspace = reqs[2].ws

\* The ledger applied the credit of a top-up whose reply the handler could
\* not use: the fetch failed after the write was sent, or the body could not
\* be read.
LostResponse(r) ==
    /\ r.handler = "topupHandler" /\ r.pc = "done"
    /\ r.credited
    /\ ThrowSite(r.up) # "none"

\* C16: when the ledger has applied the credit of a verified top-up and its
\* response is lost or unreadable, the core reports failure (500
\* {error: "Topup failed"}), exactly as for a write that was not applied; the
\* write carried nothing but the amount, the core makes no further call to
\* detect the credit, and the credit stays in the ledger.
C16_LostResponseUndetected ==
    \A i \in Requests :
        LET r == reqs[i]
        IN  LostResponse(r) =>
              /\ r.verdict = "verified"
              /\ r.resp.kind = "json" /\ r.resp.status = 500
              /\ r.resp.body.error = "Topup failed"
              /\ r.resp = TopupErrorResponse(Thrown("Phala topup: ", r.up))
              /\ DOMAIN r.sent = {"amount"}
              /\ r.writes = 1 /\ r.reads = 0
              /\ \E k \in 1..Len(ledger[r.ws]) : ledger[r.ws][k] = r.sent.amount

\* The ledger applied a credit, the fetch then failed, and the caller was
\* told 500.
C16_Witness ==
    \E i \in Requests :
        /\ LostResponse(reqs[i])
        /\ reqs[i].up.net = "error"
        /\ reqs[i].resp.status = 500
        /\ Len(ledger[reqs[i].ws]) = 1

\* USDC resolves on the configured, or default, Solana network.
UsdcResolves == solanaNetwork(env) \in KnownSPLTokenClusters

\* The environment is complete but for Solana, which is disabled.
EvmOnly ==
    /\ TruthyChars(env.TOP_UP_COST)
    /\ Truthy(env.PHALA_CLOUD_API_KEY)
    /\ Truthy(env.EVM_RECEIVING_ADDRESS)
    /\ ~Truthy(env.SOLANA_RECEIVING_ADDRESS)

\* C17: a serving server has resolved USDC on the configured (or default
\* devnet) Solana network, whether or not Solana is enabled: with only the
\* EVM receiving address configured, a SOLANA_NETWORK on which USDC is
\* unknown keeps the server from serving, and the default network lets it serve.
C17_StartupNeedsSolanaUsdc ==
    /\ phase = "serving" => UsdcResolves
    /\ (EvmOnly /\ ~UsdcResolves) => (phase = "failed" /\ reqs = <<>>)
    /\ (EvmOnly /\ env.SOLANA_NETWORK = Undefined) => phase = "serving"

\* Startup failed with only the EVM address configured and SOLANA_NETWORK
\* naming a network without USDC.
C17_Witness ==
    /\ EvmOnly
    /\ env.SOLANA_NETWORK = "localnet"
    /\ phase = "failed"
    /\ paymentAccepts = <<>>

====
